---------------------------- MODULE Spec2Model ----------------------------
(***************************************************************************)
(* Model of the Zoho Desk article migration engine:                        *)
(*   src/src/migrator.py      ArticleMigrator (category mapper,            *)
(*                            transformer, single-article orchestrator)    *)
(*   src/src/zoho_desk_api.py ZohoDeskAPI (remote article store client)    *)
(*   src/src/zoho_auth.py     ZohoAuth (credential provider)               *)
(*                                                                         *)
(* Python values are modelled as follows:                                  *)
(*   None          the record [none |-> TRUE]                              *)
(*   str  'abc'    the record [str |-> "abc"]  (Str("abc"))                *)
(*   list [a, b]   the record [list |-> <<a, b>>]  (List(<<a, b>>))        *)
(*   dict {k: v}   the function with domain the keys (strings) present     *)
(* so that any two values can be compared; the empty dict is <<>>.         *)
(***************************************************************************)
EXTENDS Integers, Sequences, FiniteSets, TLC

VARIABLES
    category_map,    \* ArticleMigrator.category_map: dict str -> str
    migration_log,   \* ArticleMigrator.migration_log: list of result dicts
    access_token,    \* ZohoAuth.access_token: None or a str
    store,           \* the remote article store: article id (string) -> article dict
    requests,        \* HTTP requests issued by the most recent method call, in order
    last,            \* the most recent method call: its name, arguments, return value, stdout
    returned         \* the results returned by migrate_single_article since construction

vars == <<category_map, migration_log, access_token, store, requests, last, returned>>

-----------------------------------------------------------------------------
(* Python values                                                           *)

None == [none |-> TRUE]

Str(s) == [str |-> s]

List(items) == [list |-> items]

\* an int value
IntValue(n) == [int |-> n]

\* bool(v) for None, str, list, dict and int values
Truthy(v) == v \notin {None, Str(""), List(<<>>), <<>>, IntValue(0)}

\* d.get(k)
Get(d, k) == IF k \in DOMAIN d THEN d[k] ELSE None

\* f"{v}" for a value that is None or a str
Fmt(v) == IF v = None THEN "None" ELSE v.str

\* s.startswith(prefix) on the characters of s
StartsWith(s, prefix) ==
    /\ Len(s) >= Len(prefix)
    /\ SubSeq(s, 1, Len(prefix)) = prefix

\* sep.join(items) for the items of a list of str
RECURSIVE Join(_, _)
Join(sep, items) ==
    IF items = <<>> THEN ""
    ELSE IF Len(items) = 1 THEN items[1].str
    ELSE items[1].str \o sep \o Join(sep, Tail(items))

\* {**d, k: v}
With(d, k, v) == [x \in DOMAIN d \cup {k} |-> IF x = k THEN v ELSE d[x]]

-----------------------------------------------------------------------------
(* The category table                                                      *)

\* the table literal of ArticleMigrator.__init__
DefaultCategoryMap ==
    LET t == <<
        <<"986740000000680203", "986740000000700136">>,
        <<"986740000000680258", "986740000000700114">>,
        <<"986740000000682002", "986740000000700125">>,
        <<"986740000000688053", "986740000000700147">>,
        <<"986740000000698100", "986740000000700158">>,
        <<"986740000000698209", "986740000000700169">>,
        <<"986740000000262213", "986740000000424018">>,
        <<"986740000000698448", "986740000000698448">>,
        <<"986740000000698752", "986740000000698752">>,
        <<"986740000000698851", "986740000000698851">>,
        <<"986740000000698982", "PLACEHOLDER_SCHEDULE_FARES">>,
        <<"986740000000703267", "PLACEHOLDER_DELAYS_STATUS">>,
        <<"986740000000703324", "986740000000700136">>,
        <<"986740000000703347", "986740000000700114">>,
        <<"986740000000703534", "986740000000700169">>,
        <<"986740000000703589", "PLACEHOLDER_EVENT_TRAINS">>,
        <<"986740000000703694", "PLACEHOLDER_EMPLOYMENT">>,
        <<"986740000000716054", "PLACEHOLDER_MAINTENANCE">> >>
    IN [k \in {Str(t[i][1]) : i \in DOMAIN t} |->
            Str(t[CHOOSE i \in DOMAIN t : Str(t[i][1]) = k][2])]

\* the prefix map_category_id tests for
PLACEHOLDER_PREFIX == "PLACEHOLDER_"

\* faulty variant: category_map.setdefault(source_category_id) instead of
\* category_map.get(source_category_id): a missing key is entered with None
map_category_id_enters_missing(source_category_id) ==
    LET mapped_id == Get(category_map, source_category_id) IN
    IF ~Truthy(mapped_id)
    THEN [category_map |-> With(category_map, source_category_id, None),
          ret |-> None,
          out |-> << "[Migrator] WARNING: No mapping found for category ID "
                        \o Fmt(source_category_id) >>]
    ELSE IF StartsWith(mapped_id.str, PLACEHOLDER_PREFIX)
    THEN [category_map |-> category_map, ret |-> None,
          out |-> << "[Migrator] ERROR: Category mapping is a placeholder: "
                        \o mapped_id.str,
                     "[Migrator] You need to create this category in ACE and update the mapping" >>]
    ELSE [category_map |-> category_map, ret |-> mapped_id, out |-> <<>>]

\* faulty variant: the last line returns the source id instead of the mapped id
map_category_id_returns_source(source_category_id) ==
    LET mapped_id == Get(category_map, source_category_id) IN
    IF ~Truthy(mapped_id)
    THEN [category_map |-> category_map, ret |-> None,
          out |-> << "[Migrator] WARNING: No mapping found for category ID "
                        \o Fmt(source_category_id) >>]
    ELSE IF StartsWith(mapped_id.str, PLACEHOLDER_PREFIX)
    THEN [category_map |-> category_map, ret |-> None,
          out |-> << "[Migrator] ERROR: Category mapping is a placeholder: "
                        \o mapped_id.str,
                     "[Migrator] You need to create this category in ACE and update the mapping" >>]
    ELSE [category_map |-> category_map, ret |-> source_category_id, out |-> <<>>]

\* faulty variant: category_map.get(source_category_id, source_category_id), an
\* unknown category falls back to its own id
map_category_id_default_self(source_category_id) ==
    LET mapped_id == IF source_category_id \in DOMAIN category_map
                     THEN category_map[source_category_id]
                     ELSE source_category_id IN
    IF ~Truthy(mapped_id)
    THEN [category_map |-> category_map, ret |-> None,
          out |-> << "[Migrator] WARNING: No mapping found for category ID "
                        \o Fmt(source_category_id) >>]
    ELSE IF StartsWith(mapped_id.str, PLACEHOLDER_PREFIX)
    THEN [category_map |-> category_map, ret |-> None,
          out |-> << "[Migrator] ERROR: Category mapping is a placeholder: "
                        \o mapped_id.str,
                     "[Migrator] You need to create this category in ACE and update the mapping" >>]
    ELSE [category_map |-> category_map, ret |-> mapped_id, out |-> <<>>]

\* faulty variant: the placeholder test is missing
map_category_id_no_placeholder_test(source_category_id) ==
    LET mapped_id == Get(category_map, source_category_id) IN
    IF ~Truthy(mapped_id)
    THEN [category_map |-> category_map, ret |-> None,
          out |-> << "[Migrator] WARNING: No mapping found for category ID "
                        \o Fmt(source_category_id) >>]
    ELSE [category_map |-> category_map, ret |-> mapped_id, out |-> <<>>]

map_category_id(source_category_id) ==
    LET mapped_id == Get(category_map, source_category_id) IN
    IF ~Truthy(mapped_id)
    THEN [category_map |-> category_map, ret |-> None,
          out |-> << "[Migrator] WARNING: No mapping found for category ID "
                        \o Fmt(source_category_id) >>]
    ELSE IF StartsWith(mapped_id.str, PLACEHOLDER_PREFIX)
    THEN [category_map |-> category_map, ret |-> None,
          out |-> << "[Migrator] ERROR: Category mapping is a placeholder: "
                        \o mapped_id.str,
                     "[Migrator] You need to create this category in ACE and update the mapping" >>]
    ELSE [category_map |-> category_map, ret |-> mapped_id, out |-> <<>>]


\* faulty variant: tags and summary are copied whenever the key is present
transform_article_keeps_empty(source_article, destination_department_id) ==
    LET source_category_id == Get(source_article, "categoryId")
        mapped == map_category_id(source_category_id)
        destination_category_id == mapped.ret
        transformed ==
            [title        |-> Get(source_article, "title"),
             answer       |-> Get(source_article, "answer"),
             categoryId   |-> destination_category_id,
             departmentId |-> destination_department_id]
        with_status ==
            IF "status" \in DOMAIN source_article
            THEN With(transformed, "status", Get(source_article, "status"))
            ELSE transformed
        with_tags ==
            IF "tags" \in DOMAIN source_article
            THEN With(with_status, "tags", source_article["tags"])
            ELSE with_status
        with_summary ==
            IF "summary" \in DOMAIN source_article
            THEN With(with_tags, "summary", source_article["summary"])
            ELSE with_tags
    IN  IF ~Truthy(destination_category_id)
        THEN [ret |-> None, out |-> mapped.out,
              category_map |-> mapped.category_map]
        ELSE [ret |-> with_summary, out |-> mapped.out,
              category_map |-> mapped.category_map]

\* faulty variant: departmentId is taken from the source article
transform_article_source_department(source_article, destination_department_id) ==
    LET source_category_id == Get(source_article, "categoryId")
        mapped == map_category_id(source_category_id)
        destination_category_id == mapped.ret
        transformed ==
            [title        |-> Get(source_article, "title"),
             answer       |-> Get(source_article, "answer"),
             categoryId   |-> destination_category_id,
             departmentId |-> Get(source_article, "departmentId")]
        with_status ==
            IF "status" \in DOMAIN source_article
            THEN With(transformed, "status", Get(source_article, "status"))
            ELSE transformed
        with_tags ==
            IF "tags" \in DOMAIN source_article /\ Truthy(source_article["tags"])
            THEN With(with_status, "tags", source_article["tags"])
            ELSE with_status
        with_summary ==
            IF "summary" \in DOMAIN source_article /\ Truthy(source_article["summary"])
            THEN With(with_tags, "summary", source_article["summary"])
            ELSE with_tags
    IN  IF ~Truthy(destination_category_id)
        THEN [ret |-> None, out |-> mapped.out,
              category_map |-> mapped.category_map]
        ELSE [ret |-> with_summary, out |-> mapped.out,
              category_map |-> mapped.category_map]

\* faulty variant: the payload starts as a copy of the source article
transform_article_copies_source(source_article, destination_department_id) ==
    LET source_category_id == Get(source_article, "categoryId")
        mapped == map_category_id(source_category_id)
        destination_category_id == mapped.ret
        transformed ==
            [title        |-> Get(source_article, "title"),
             answer       |-> Get(source_article, "answer"),
             categoryId   |-> destination_category_id,
             departmentId |-> destination_department_id]
        with_status ==
            IF "status" \in DOMAIN source_article
            THEN transformed @@ source_article
            ELSE transformed @@ source_article
        with_tags ==
            IF "tags" \in DOMAIN source_article /\ Truthy(source_article["tags"])
            THEN With(with_status, "tags", source_article["tags"])
            ELSE with_status
        with_summary ==
            IF "summary" \in DOMAIN source_article /\ Truthy(source_article["summary"])
            THEN With(with_tags, "summary", source_article["summary"])
            ELSE with_tags
    IN  IF ~Truthy(destination_category_id)
        THEN [ret |-> None, out |-> mapped.out,
              category_map |-> mapped.category_map]
        ELSE [ret |-> with_summary, out |-> mapped.out,
              category_map |-> mapped.category_map]

\* faulty variant: an article without a category is passed on, only a category
\* that is present and cannot be resolved fails
transform_article_passes_missing_category(source_article, destination_department_id) ==
    LET source_category_id == Get(source_article, "categoryId")
        mapped == map_category_id(source_category_id)
        destination_category_id == mapped.ret
        transformed ==
            [title        |-> Get(source_article, "title"),
             answer       |-> Get(source_article, "answer"),
             categoryId   |-> destination_category_id,
             departmentId |-> destination_department_id]
        with_status ==
            IF "status" \in DOMAIN source_article
            THEN With(transformed, "status", Get(source_article, "status"))
            ELSE transformed
        with_tags ==
            IF "tags" \in DOMAIN source_article /\ Truthy(source_article["tags"])
            THEN With(with_status, "tags", source_article["tags"])
            ELSE with_status
        with_summary ==
            IF "summary" \in DOMAIN source_article /\ Truthy(source_article["summary"])
            THEN With(with_tags, "summary", source_article["summary"])
            ELSE with_tags
    IN  IF ~Truthy(destination_category_id) /\ source_category_id # None
        THEN [ret |-> None, out |-> mapped.out,
              category_map |-> mapped.category_map]
        ELSE [ret |-> with_summary, out |-> mapped.out,
              category_map |-> mapped.category_map]

transform_article(source_article, destination_department_id) ==
    LET source_category_id == Get(source_article, "categoryId")
        mapped == map_category_id(source_category_id)
        destination_category_id == mapped.ret
        transformed ==
            [title        |-> Get(source_article, "title"),
             answer       |-> Get(source_article, "answer"),
             categoryId   |-> destination_category_id,
             departmentId |-> destination_department_id]
        with_status ==
            IF "status" \in DOMAIN source_article
            THEN With(transformed, "status", Get(source_article, "status"))
            ELSE transformed
        with_tags ==
            IF "tags" \in DOMAIN source_article /\ Truthy(source_article["tags"])
            THEN With(with_status, "tags", source_article["tags"])
            ELSE with_status
        with_summary ==
            IF "summary" \in DOMAIN source_article /\ Truthy(source_article["summary"])
            THEN With(with_tags, "summary", source_article["summary"])
            ELSE with_tags
    IN  IF ~Truthy(destination_category_id)
        THEN [ret |-> None, out |-> mapped.out,
              category_map |-> mapped.category_map]
        ELSE [ret |-> with_summary, out |-> mapped.out,
              category_map |-> mapped.category_map]

-----------------------------------------------------------------------------
(* Inputs of the mapper and the transformer                                *)

\* source category ids: mapped to a real id, mapped to itself, mapped to a
\* placeholder (all three keys of the table literal), and one of no table
SourceCategoryIds ==
    { Str("986740000000682002"), Str("986740000000698448"),
      Str("986740000000698982"), Str("986740000000999999") }

\* what an edited table may hold for a key: real destination ids, the
\* placeholders of the literal, the bare prefix, the marker the mapping
\* generator prints, and an entry left empty
TableValues ==
    { Str("986740000000700125"), Str("986740000000682002"),
      Str("PLACEHOLDER_SCHEDULE_FARES"), Str("PLACEHOLDER_"),
      Str("NEEDS_MAPPING"), Str("") }

TableKeys == { Str("986740000000682002"), Str("986740000000698982") }

\* the table literal, and every table over TableKeys with TableValues
CategoryTables ==
    {DefaultCategoryMap} \cup
    UNION { [K -> TableValues] : K \in SUBSET TableKeys }

SJRRC_DEPARTMENT_ID == Str("986740000000403042")

ACE_DEPARTMENT_ID == Str("986740000000006907")

DestinationDepartmentIds == { ACE_DEPARTMENT_ID, SJRRC_DEPARTMENT_ID }

\* the optional part of an article: any subset of the optional keys, each
\* with one of the values the store can send for it
OptionalFields ==
    LET values == [ departmentId |-> { SJRRC_DEPARTMENT_ID, ACE_DEPARTMENT_ID },
                    status       |-> { Str("PUBLISHED") },
                    tags         |-> { List(<<>>), List(<<Str("wifi"), Str("onboard")>>), None },
                    summary      |-> { Str(""), Str("How to connect"), None } ]
    IN  UNION { { f \in [K -> UNION {values[k] : k \in K}] :
                    \A k \in K : f[k] \in values[k] } :
                K \in SUBSET DOMAIN values }

\* source articles: id, title and answer, a category id or none, and an
\* optional part
SourceArticles ==
    { opt @@ cat @@ [id     |-> Str("986740000000710001"),
                     title  |-> Str("Wi-Fi Help"),
                     answer |-> Str("<p>Join <b>ACE-WiFi</b> &amp; browse</p>")] :
        opt \in OptionalFields,
        cat \in { [categoryId |-> c] : c \in SourceCategoryIds \cup {None} }
                \cup { <<>> } }

NoCall == [op |-> "none"]


-----------------------------------------------------------------------------
(* The credential provider (ZohoAuth) and the API client (ZohoDeskAPI).    *)
(* A method reads and writes self.auth.access_token and the remote store;  *)
(* the operators take both as arguments and give the new values back, so   *)
(* that one caller can make several calls in a row.  What the network and  *)
(* the remote side answer is an argument too.                              *)

token_url == "https://accounts.zoho.com/oauth/v2/token"

base_url == "https://desk.zoho.com/api/v1"

\* ZohoDeskAPI.org_id, the ZOHO_ORG_ID of the environment
org_id == Str("60001280952")

\* the access token the token endpoint hands out
IssuedToken == Str("1000.8cb99dxxxxxxxx.9b8xxxxxxxxf")

\* answers of the token endpoint: a token, a 200 answer without a token,
\* an error status or no answer
TokenReplies ==
    { [ok |-> TRUE, json |-> [access_token |-> IssuedToken]],
      [ok |-> TRUE, json |-> [error |-> Str("invalid_code")]],
      [ok |-> FALSE] }

\* ZohoAuth.get_access_token: the new self.access_token, the value returned
\* and the request sent
get_access_token(token, reply) ==
    LET request == [method |-> "POST", url |-> token_url,
                    authorization |-> None, json |-> None, ok |-> reply.ok] IN
    IF reply.ok /\ "access_token" \in DOMAIN reply.json
    THEN [access_token |-> reply.json.access_token,
          ret          |-> reply.json.access_token,
          requests     |-> <<request>>]
    ELSE [access_token |-> token, ret |-> None, requests |-> <<request>>]

\* faulty variant: a token is fetched for every request, cached or not
get_headers_always_fetches(token, reply, include_content_type) ==
    LET auth == get_access_token(token, reply)
        headers == [Authorization |-> Str("Zoho-oauthtoken " \o Fmt(auth.access_token)),
                    orgId         |-> org_id]
    IN  [access_token |-> auth.access_token,
         requests     |-> auth.requests,
         headers      |-> IF include_content_type
                          THEN With(headers, "Content-Type", Str("application/json"))
                          ELSE headers]

\* ZohoDeskAPI._get_headers
get_headers(token, reply, include_content_type) ==
    LET auth == IF ~Truthy(token)
                THEN get_access_token(token, reply)
                ELSE [access_token |-> token, requests |-> <<>>]
        headers == [Authorization |-> Str("Zoho-oauthtoken " \o Fmt(auth.access_token)),
                    orgId         |-> org_id]
    IN  [access_token |-> auth.access_token,
         requests     |-> auth.requests,
         headers      |-> IF include_content_type
                          THEN With(headers, "Content-Type", Str("application/json"))
                          ELSE headers]

\* the remote side accepts a request that carries the issued token
Authorized(headers) ==
    headers.Authorization = Str("Zoho-oauthtoken " \o IssuedToken.str)

\* the remote side's answer to GET /articles/{id}
ServerGetArticle(articles, headers, article_id) ==
    IF ~Authorized(headers) THEN [status |-> 401]
    ELSE IF article_id \notin DOMAIN articles THEN [status |-> 404]
    ELSE [status |-> 200, json |-> articles[article_id]]

\* the id the remote side gives the n-th article it creates
NewArticleId(n) == Str("98674000000080000" \o ToString(n))

\* the articles the remote side holds before any migration
InitialStore ==
    LET article(id, title, fields) ==
            fields @@ [id |-> Str(id), title |-> Str(title),
                       answer |-> Str("<p>Text of " \o title \o "</p>"),
                       departmentId |-> SJRRC_DEPARTMENT_ID]
        all == <<
          article("986740000000710001", "Wi-Fi Help",
                  [categoryId |-> Str("986740000000682002"),
                   status |-> Str("PUBLISHED"),
                   tags |-> List(<<Str("wifi"), Str("onboard")>>),
                   summary |-> Str("How to connect")]),
          article("986740000000710002", "Fares",
                  [categoryId |-> Str("986740000000698982"),
                   status |-> Str("DRAFT"),
                   tags |-> List(<<>>)]),
          article("986740000000710003", "Lost and Found",
                  [categoryId |-> Str("986740000000999999")]),
          article("986740000000710004", "Uncategorised", <<>>),
          article("986740000000710005", "Unfiled", [categoryId |-> None]) >>
    IN  [id \in {all[i].id : i \in DOMAIN all} |->
            all[CHOOSE i \in DOMAIN all : all[i].id = id]]

\* faulty variant: the remote side stores an article only once; a second
\* POST of the same article is answered with the one it already holds
ServerCreateArticle_deduplicates(articles, headers, article_data) ==
    IF ~Authorized(headers) THEN [status |-> 401, articles |-> articles]
    ELSE LET n == Cardinality(DOMAIN articles) - Cardinality(DOMAIN InitialStore) + 1
             id == NewArticleId(n)
             created == With(With(article_data, "id", id),
                             "permalink", Str("article-" \o id.str))
             held == { k \in DOMAIN articles \ DOMAIN InitialStore :
                         \A f \in DOMAIN article_data :
                            articles[k][f] = article_data[f] }
         IN  IF held # {}
             THEN [status |-> 200, json |-> articles[CHOOSE k \in held : TRUE],
                   articles |-> articles]
             ELSE [status |-> 200, json |-> created,
                   articles |-> With(articles, id, created)]

\* the remote side's answer to POST /articles: the article is stored under a
\* new id and sent back
ServerCreateArticle(articles, headers, article_data) ==
    IF ~Authorized(headers) THEN [status |-> 401, articles |-> articles]
    ELSE LET n == Cardinality(DOMAIN articles) - Cardinality(DOMAIN InitialStore) + 1
             id == NewArticleId(n)
             created == With(With(article_data, "id", id),
                             "permalink", Str("article-" \o id.str))
         IN  [status |-> 200, json |-> created,
              articles |-> With(articles, id, created)]

\* faulty variant: a request that gets no answer is sent a second time
get_article_by_id_retries(token, articles, article_id, net) ==
    LET h == get_headers(token, net.token_reply, FALSE)
        url == base_url \o "/articles/" \o Fmt(article_id)
        response == ServerGetArticle(articles, h.headers, article_id)
        request(ok) == [method |-> "GET", url |-> url,
                        authorization |-> h.headers.Authorization,
                        json |-> None,
                        ok |-> ok]
    IN  [ret          |-> IF response.status = 200 THEN response.json ELSE None,
         access_token |-> h.access_token,
         requests     |-> IF net.answered
                          THEN Append(h.requests, request(response.status = 200))
                          ELSE h.requests \o << request(FALSE),
                                                request(response.status = 200) >>]

\* ZohoDeskAPI.get_article_by_id; net.answered is FALSE when the request
\* fails whatever it carries: no answer (requests.exceptions.RequestException)
\* or an error status (HTTPError), such as the 401 for a token that has
\* expired; both handlers return None
get_article_by_id(token, articles, article_id, net) ==
    LET h == get_headers(token, net.token_reply, FALSE)
        url == base_url \o "/articles/" \o Fmt(article_id)
        response == IF net.answered
                    THEN ServerGetArticle(articles, h.headers, article_id)
                    ELSE [status |-> 0]
        request == [method |-> "GET", url |-> url,
                    authorization |-> h.headers.Authorization,
                    json |-> None,
                    ok |-> response.status = 200]
    IN  [ret          |-> IF response.status = 200 THEN response.json ELSE None,
         access_token |-> h.access_token,
         requests     |-> Append(h.requests, request)]

\* ZohoDeskAPI.create_article
create_article(token, articles, article_data, net) ==
    LET h == get_headers(token, net.token_reply, TRUE)
        url == base_url \o "/articles"
        response == IF net.answered
                    THEN ServerCreateArticle(articles, h.headers, article_data)
                    ELSE [status |-> 0, articles |-> articles]
        request == [method |-> "POST", url |-> url,
                    authorization |-> h.headers.Authorization,
                    json |-> article_data,
                    ok |-> response.status = 200]
    IN  [ret          |-> IF response.status = 200 THEN response.json ELSE None,
         access_token |-> h.access_token,
         articles     |-> response.articles,
         requests     |-> Append(h.requests, request)]

\* get_all_articles.batch_size
batch_size == 100

\* the article at position k of the remote side's listing (positions start at 1)
ListedArticle(k) ==
    [id    |-> Str("9867400000007" \o ToString(20000 + k)),
     title |-> Str("Article " \o ToString(k))]

\* what the network and the remote side can answer to GET /articles: no
\* answer, a JSON object without 'data', or a page of size articles
PageAnswers ==
    { [kind |-> "none"],
      [kind |-> "other", json |-> <<>>],
      [kind |-> "other", json |-> [message |-> Str("No content")]] }
    \cup { [kind |-> "page", size |-> n] : n \in 0..batch_size }

\* the remote side's answer to GET /articles: the page starts at the
\* position params['from'] and holds at most params['limit'] articles
ServerListArticles(headers, params, answer) ==
    IF answer.kind = "none" THEN [status |-> 0]
    ELSE IF ~Authorized(headers) THEN [status |-> 401]
    ELSE IF answer.kind = "other" THEN [status |-> 200, json |-> answer.json]
    ELSE LET from == IF "from" \in DOMAIN params THEN params["from"].int ELSE 1
             n == IF "limit" \in DOMAIN params /\ params["limit"].int < answer.size
                  THEN params["limit"].int ELSE answer.size
         IN  [status |-> 200,
              json   |-> [data |-> List([i \in 1..n |-> ListedArticle(from + i - 1)])]]

\* ZohoDeskAPI.get_articles; limit and from_index are None or an int,
\* net.answer is the answer to the request
get_articles(token, limit, from_index, net) ==
    LET h == get_headers(token, net.token_reply, FALSE)
        params == [orgId |-> org_id]
                  @@ (IF Truthy(limit)
                      THEN [limit |-> IntValue(IF limit.int < 100 THEN limit.int ELSE 100)]
                      ELSE <<>>)
                  @@ (IF from_index # None THEN [from |-> from_index] ELSE <<>>)
        response == ServerListArticles(h.headers, params, net.answer)
        request == [method |-> "GET", url |-> base_url \o "/articles",
                    authorization |-> h.headers.Authorization,
                    json |-> None,
                    params |-> params,
                    ok |-> response.status = 200]
    IN  [ret          |-> IF response.status = 200 THEN response.json ELSE None,
         access_token |-> h.access_token,
         requests     |-> Append(h.requests, request),
         out          |-> << IF response.status # 200
                             THEN "[API] Error fetching articles"
                             ELSE IF "data" \in DOMAIN response.json
                             THEN "[API] Successfully fetched "
                                  \o ToString(Len(response.json["data"].list))
                                  \o " articles"
                             ELSE "[API] Successfully fetched 0 articles" >>]

\* how many requests of one call of get_all_articles are followed: a call
\* that has sent this many and goes round the loop again is left unfinished
MaxPageRequests == 3

\* the answers one call of get_all_articles meets: plan.full full pages
\* first, then plan.final, then empty pages
AnswerAt(plan, i) ==
    IF i <= plan.full THEN [kind |-> "page", size |-> batch_size]
    ELSE IF i = plan.full + 1 THEN plan.final
    ELSE [kind |-> "page", size |-> 0]

\* get_all_articles after the loop: the list is returned
pager_done(st) ==
    [st EXCEPT !.finished = TRUE,
               !.out = Append(@, "[API] Finished! Total articles: "
                                 \o ToString(Len(st.all_articles)))]

RECURSIVE pager_loop(_, _, _)

\* faulty variant: a short page does not end the loop, only an empty one does
pager_batch_until_empty(st, plan, token_reply, articles) ==
    IF ~Truthy(articles) THEN pager_done(st)
    ELSE pager_loop([st EXCEPT !.all_articles = @ \o articles.list,
                               !.out = Append(@, "[API] Total fetched so far: "
                                                 \o ToString(Len(st.all_articles)
                                                             + Len(articles.list))),
                               !.from_index = @ + Len(articles.list)],
                    plan, token_reply)

\* the loop body of get_all_articles from articles = batch['data'] on
pager_batch(st, plan, token_reply, articles) ==
    IF ~Truthy(articles) THEN pager_done(st)
    ELSE IF Len(articles.list) < batch_size
    THEN pager_done([st EXCEPT !.all_articles = @ \o articles.list,
                               !.out = Append(@, "[API] Total fetched so far: "
                                                 \o ToString(Len(st.all_articles)
                                                             + Len(articles.list)))])
    ELSE pager_loop([st EXCEPT !.all_articles = @ \o articles.list,
                               !.out = Append(@, "[API] Total fetched so far: "
                                                 \o ToString(Len(st.all_articles)
                                                             + Len(articles.list))),
                               !.from_index = @ + Len(articles.list)],
                    plan, token_reply)

\* the loop body of get_all_articles from the test of batch on; r is what
\* get_articles gave
pager_page(st, plan, token_reply, r) ==
    IF ~Truthy(r.ret) \/ "data" \notin DOMAIN r.ret
    THEN pager_done([st EXCEPT !.access_token = r.access_token,
                               !.requests = @ \o r.requests,
                               !.out = @ \o r.out,
                               !.count = @ + 1])
    ELSE pager_batch([st EXCEPT !.access_token = r.access_token,
                                !.requests = @ \o r.requests,
                                !.out = @ \o r.out,
                                !.count = @ + 1],
                     plan, token_reply, r.ret["data"])

\* the while True loop of get_all_articles, one round per page request
pager_loop(st, plan, token_reply) ==
    IF st.count >= MaxPageRequests THEN st
    ELSE pager_page(st, plan, token_reply,
                    get_articles(st.access_token, IntValue(batch_size), IntValue(st.from_index),
                                 [token_reply |-> token_reply,
                                  answer |-> AnswerAt(plan, st.count + 1)]))

\* faulty variant: the first offset is 0
get_all_articles_from_zero(token, plan, token_reply) ==
    pager_loop([all_articles |-> <<>>,
                from_index   |-> 0,
                access_token |-> token,
                requests     |-> <<>>,
                out          |-> << "[API] Fetching all articles with pagination..." >>,
                count        |-> 0,
                finished     |-> FALSE],
               plan, token_reply)

\* ZohoDeskAPI.get_all_articles: the list returned (when the call
\* finished), the new access token, the requests sent and the lines printed
get_all_articles(token, plan, token_reply) ==
    pager_loop([all_articles |-> <<>>,
                from_index   |-> 1,
                access_token |-> token,
                requests     |-> <<>>,
                out          |-> << "[API] Fetching all articles with pagination..." >>,
                count        |-> 0,
                finished     |-> FALSE],
               plan, token_reply)

-----------------------------------------------------------------------------
(* The orchestrator (ArticleMigrator.migrate_single_article)               *)

\* the lines migrate_single_article prints about the fetched article
SourceLines(source_article) ==
    LET tags == IF "tags" \in DOMAIN source_article
                THEN source_article["tags"] ELSE List(<<>>)
    IN  << "[Migrator] Source article: " \o Fmt(Get(source_article, "title")),
           "[Migrator] Source category ID: " \o Fmt(Get(source_article, "categoryId")),
           "[Migrator] Source department ID: " \o Fmt(Get(source_article, "departmentId")),
           IF Truthy(tags)
           THEN "[Migrator] Tags: " \o Join(", ", tags.list)
           ELSE "[Migrator] No tags found" >>

\* faulty variant: migration_log.insert(0, result) instead of append
Attempt_inserts_first(result, token, articles, sent, out) ==
    [result        |-> result,
     migration_log |-> <<result>> \o migration_log,
     access_token  |-> token,
     store         |-> articles,
     requests      |-> sent,
     out           |-> out,
     category_map  |-> category_map]

\* what one call of migrate_single_article leaves behind: the result it
\* returns and appends to migration_log, the new access token and remote
\* store, the requests sent and the lines printed
Attempt(result, token, articles, sent, out) ==
    [result        |-> result,
     migration_log |-> Append(migration_log, result),
     access_token  |-> token,
     store         |-> articles,
     requests      |-> sent,
     out           |-> out,
     category_map  |-> category_map]

\* faulty variant: the result reports the id of the source article as the new id
migrate_create_reports_source_id(article_id, source_article, fetch, create, out) ==
    LET created_article == create.ret
        sent == fetch.requests \o create.requests
    IN
    IF Truthy(created_article)
    THEN Attempt([article_id     |-> article_id,
                  title          |-> Get(source_article, "title"),
                  status         |-> Str("success"),
                  new_article_id |-> Get(source_article, "id"),
                  new_permalink  |-> Get(created_article, "permalink")],
                 create.access_token, create.articles, sent,
                 out \o
                 << "[Migrator] SUCCESS! New article ID: " \o Fmt(Get(created_article, "id")),
                    "[Migrator] Permalink: " \o Fmt(Get(created_article, "permalink")) >>)
    ELSE Attempt([article_id |-> article_id,
                  title      |-> Get(source_article, "title"),
                  status     |-> Str("failed"),
                  error      |-> Str("API creation failed")],
                 create.access_token, create.articles, sent, out)

\* faulty variant: a failed creation is recorded without its error
migrate_create_failure_without_error(article_id, source_article, fetch, create, out) ==
    LET created_article == create.ret
        sent == fetch.requests \o create.requests
    IN
    IF Truthy(created_article)
    THEN Attempt([article_id     |-> article_id,
                  title          |-> Get(source_article, "title"),
                  status         |-> Str("success"),
                  new_article_id |-> Get(created_article, "id"),
                  new_permalink  |-> Get(created_article, "permalink")],
                 create.access_token, create.articles, sent,
                 out \o
                 << "[Migrator] SUCCESS! New article ID: " \o Fmt(Get(created_article, "id")),
                    "[Migrator] Permalink: " \o Fmt(Get(created_article, "permalink")) >>)
    ELSE Attempt([article_id |-> article_id,
                  title      |-> Get(source_article, "title"),
                  status     |-> Str("failed")],
                 create.access_token, create.articles, sent, out)

\* migrate_single_article from the call of create_article on; create is
\* what create_article gave
migrate_create(article_id, source_article, fetch, create, out) ==
    LET created_article == create.ret
        sent == fetch.requests \o create.requests
    IN
    IF Truthy(created_article)
    THEN Attempt([article_id     |-> article_id,
                  title          |-> Get(source_article, "title"),
                  status         |-> Str("success"),
                  new_article_id |-> Get(created_article, "id"),
                  new_permalink  |-> Get(created_article, "permalink")],
                 create.access_token, create.articles, sent,
                 out \o
                 << "[Migrator] SUCCESS! New article ID: " \o Fmt(Get(created_article, "id")),
                    "[Migrator] Permalink: " \o Fmt(Get(created_article, "permalink")) >>)
    ELSE Attempt([article_id |-> article_id,
                  title      |-> Get(source_article, "title"),
                  status     |-> Str("failed"),
                  error      |-> Str("API creation failed")],
                 create.access_token, create.articles, sent, out)

\* faulty variant: a live attempt whose transform failed goes on to create
\* the article without a category
migrate_transformed_creates_unmapped(article_id, dry_run, net, fetch, t, out) ==
    LET source_article == fetch.ret
        transformed == t.ret
    IN
    [ IF ~Truthy(transformed) /\ dry_run
    THEN Attempt([article_id |-> article_id,
                  title      |-> Get(source_article, "title"),
                  status     |-> Str("failed"),
                  error      |-> Str("Category mapping failed")],
                 fetch.access_token, store, fetch.requests, out \o t.out)
    ELSE IF ~Truthy(transformed)
    THEN migrate_create(article_id, source_article, fetch,
                        create_article(fetch.access_token, store,
                                       [title  |-> Get(source_article, "title"),
                                        answer |-> Get(source_article, "answer")],
                                       [token_reply |-> net.token_reply,
                                        answered |-> net.create]),
                        out \o t.out)
    ELSE IF dry_run
    THEN Attempt([article_id  |-> article_id,
                  title       |-> Get(source_article, "title"),
                  status      |-> Str("dry_run"),
                  source      |-> source_article,
                  transformed |-> transformed],
                 fetch.access_token, store, fetch.requests,
                 out \o t.out \o
                 << "[Migrator] Destination category ID: " \o Fmt(transformed["categoryId"]),
                    "[Migrator] Destination department ID: " \o Fmt(transformed["departmentId"]) >>)
    ELSE migrate_create(article_id, source_article, fetch,
                        create_article(fetch.access_token, store, transformed,
                                       [token_reply |-> net.token_reply,
                                        answered |-> net.create]),
                        out \o t.out \o
                        << "[Migrator] Destination category ID: " \o Fmt(transformed["categoryId"]),
                           "[Migrator] Destination department ID: " \o Fmt(transformed["departmentId"]) >>)
      EXCEPT !.category_map = t.category_map ]

\* faulty variant: the dry_run test is lost, every transformed article is created
migrate_transformed_ignores_dry_run(article_id, dry_run, net, fetch, t, out) ==
    LET source_article == fetch.ret
        transformed == t.ret
    IN
    [ IF ~Truthy(transformed)
    THEN Attempt([article_id |-> article_id,
                  title      |-> Get(source_article, "title"),
                  status     |-> Str("failed"),
                  error      |-> Str("Category mapping failed")],
                 fetch.access_token, store, fetch.requests, out \o t.out)
    ELSE IF dry_run /\ FALSE
    THEN Attempt([article_id  |-> article_id,
                  title       |-> Get(source_article, "title"),
                  status      |-> Str("dry_run"),
                  source      |-> source_article,
                  transformed |-> transformed],
                 fetch.access_token, store, fetch.requests,
                 out \o t.out \o
                 << "[Migrator] Destination category ID: " \o Fmt(transformed["categoryId"]),
                    "[Migrator] Destination department ID: " \o Fmt(transformed["departmentId"]) >>)
    ELSE migrate_create(article_id, source_article, fetch,
                        create_article(fetch.access_token, store, transformed,
                                       [token_reply |-> net.token_reply,
                                        answered |-> net.create]),
                        out \o t.out \o
                        << "[Migrator] Destination category ID: " \o Fmt(transformed["categoryId"]),
                           "[Migrator] Destination department ID: " \o Fmt(transformed["departmentId"]) >>)
      EXCEPT !.category_map = t.category_map ]

\* faulty variant: a dry run numbers the title of its payload with the attempt
migrate_transformed_numbers_dry_runs(article_id, dry_run, net, fetch, t, out) ==
    LET source_article == fetch.ret
        transformed == t.ret
    IN
    [ IF ~Truthy(transformed)
    THEN Attempt([article_id |-> article_id,
                  title      |-> Get(source_article, "title"),
                  status     |-> Str("failed"),
                  error      |-> Str("Category mapping failed")],
                 fetch.access_token, store, fetch.requests, out \o t.out)
    ELSE IF dry_run
    THEN Attempt([article_id  |-> article_id,
                  title       |-> Get(source_article, "title"),
                  status      |-> Str("dry_run"),
                  source      |-> source_article,
                  transformed |-> With(transformed, "title",
                                       Str(Fmt(transformed["title"]) \o " #"
                                           \o ToString(Len(migration_log) + 1)))],
                 fetch.access_token, store, fetch.requests,
                 out \o t.out \o
                 << "[Migrator] Destination category ID: " \o Fmt(transformed["categoryId"]),
                    "[Migrator] Destination department ID: " \o Fmt(transformed["departmentId"]) >>)
    ELSE migrate_create(article_id, source_article, fetch,
                        create_article(fetch.access_token, store, transformed,
                                       [token_reply |-> net.token_reply,
                                        answered |-> net.create]),
                        out \o t.out \o
                        << "[Migrator] Destination category ID: " \o Fmt(transformed["categoryId"]),
                           "[Migrator] Destination department ID: " \o Fmt(transformed["departmentId"]) >>)
      EXCEPT !.category_map = t.category_map ]

\* migrate_single_article from the call of transform_article on; t is what
\* transform_article gave
migrate_transformed(article_id, dry_run, net, fetch, t, out) ==
    LET source_article == fetch.ret
        transformed == t.ret
    IN
    [ IF ~Truthy(transformed)
    THEN Attempt([article_id |-> article_id,
                  title      |-> Get(source_article, "title"),
                  status     |-> Str("failed"),
                  error      |-> Str("Category mapping failed")],
                 fetch.access_token, store, fetch.requests, out \o t.out)
    ELSE IF dry_run
    THEN Attempt([article_id  |-> article_id,
                  title       |-> Get(source_article, "title"),
                  status      |-> Str("dry_run"),
                  source      |-> source_article,
                  transformed |-> transformed],
                 fetch.access_token, store, fetch.requests,
                 out \o t.out \o
                 << "[Migrator] Destination category ID: " \o Fmt(transformed["categoryId"]),
                    "[Migrator] Destination department ID: " \o Fmt(transformed["departmentId"]) >>)
    ELSE migrate_create(article_id, source_article, fetch,
                        create_article(fetch.access_token, store, transformed,
                                       [token_reply |-> net.token_reply,
                                        answered |-> net.create]),
                        out \o t.out \o
                        << "[Migrator] Destination category ID: " \o Fmt(transformed["categoryId"]),
                           "[Migrator] Destination department ID: " \o Fmt(transformed["departmentId"]) >>)
      EXCEPT !.category_map = t.category_map ]

\* faulty variant: a failed fetch returns its result without appending it to the log
migrate_fetched_unlogged(article_id, destination_department_id, dry_run, net, fetch, out) ==
    IF ~Truthy(fetch.ret)
    THEN [ Attempt([article_id |-> article_id,
                    status     |-> Str("failed"),
                    error      |-> Str("Failed to fetch source article")],
                   fetch.access_token, store, fetch.requests, out)
           EXCEPT !.migration_log = migration_log ]
    ELSE migrate_transformed(article_id, dry_run, net, fetch,
                             transform_article(fetch.ret, destination_department_id),
                             out \o SourceLines(fetch.ret))

\* faulty variant: a failed fetch goes on with an article that holds only the id
migrate_fetched_falls_through(article_id, destination_department_id, dry_run, net, fetch, out) ==
    IF ~Truthy(fetch.ret)
    THEN migrate_transformed(article_id, dry_run, net,
                             [fetch EXCEPT !.ret = [id |-> article_id]],
                             transform_article([id |-> article_id],
                                               destination_department_id),
                             out \o SourceLines([id |-> article_id]))
    ELSE migrate_transformed(article_id, dry_run, net, fetch,
                             transform_article(fetch.ret, destination_department_id),
                             out \o SourceLines(fetch.ret))

\* migrate_single_article from the test of the fetched article on; fetch is
\* what get_article_by_id gave
migrate_fetched(article_id, destination_department_id, dry_run, net, fetch, out) ==
    IF ~Truthy(fetch.ret)
    THEN Attempt([article_id |-> article_id,
                  status     |-> Str("failed"),
                  error      |-> Str("Failed to fetch source article")],
                 fetch.access_token, store, fetch.requests, out)
    ELSE migrate_transformed(article_id, dry_run, net, fetch,
                             transform_article(fetch.ret, destination_department_id),
                             out \o SourceLines(fetch.ret))

\* ArticleMigrator.migrate_single_article.  net is what the network answers
\* during the call: whether the GET and the POST are answered, and what the
\* token endpoint says if asked.
migrate_single_article(article_id, destination_department_id, dry_run, net) ==
    migrate_fetched(article_id, destination_department_id, dry_run, net,
                    get_article_by_id(access_token, store, article_id,
                                      [token_reply |-> net.token_reply,
                                       answered |-> net.get]),
                    << "\n" \o (IF dry_run THEN "[DRY RUN] " ELSE "")
                         \o "Migrating article " \o Fmt(article_id) \o "..." >>)

\* what the network can answer during one call of migrate_single_article
NetAnswers == [token_reply : TokenReplies, get : BOOLEAN, create : BOOLEAN]

\* article ids asked for: those of the remote store and one it does not hold
MissingArticleId == Str("986740000000719999")

MaxLog == 2

MaxCreated == 2

Created(articles) == DOMAIN articles \ DOMAIN InitialStore

Init ==
    /\ category_map = DefaultCategoryMap
    /\ migration_log = <<>>
    /\ access_token = None
    /\ store = InitialStore
    /\ requests = <<>>
    /\ last = NoCall
    /\ returned = <<>>

\* ArticleMigrator(source_api): a new orchestrator on the same API client
Construct ==
    /\ category_map' = DefaultCategoryMap
    /\ migration_log' = <<>>
    /\ returned' = <<>>
    /\ requests' = <<>>
    /\ last' = [op |-> "__init__"]
    /\ UNCHANGED <<access_token, store>>

MigrateSingleArticle ==
    \E article_id \in DOMAIN store \cup {MissingArticleId},
       destination_department_id \in {ACE_DEPARTMENT_ID},
       dry_run \in BOOLEAN,
       net \in NetAnswers :
        LET r == migrate_single_article(article_id, destination_department_id,
                                        dry_run, net)
        IN  /\ Len(migration_log) < MaxLog
            /\ Cardinality(Created(r.store)) <= MaxCreated
            /\ migration_log' = r.migration_log
            /\ access_token' = r.access_token
            /\ store' = r.store
            /\ requests' = r.requests
            /\ returned' = Append(returned, r.result)
            /\ last' = [op   |-> "migrate_single_article",
                        args |-> [article_id |-> article_id,
                                  destination_department_id |-> destination_department_id,
                                  dry_run |-> dry_run],
                        ret  |-> r.result,
                        out  |-> r.out]
            /\ category_map' = r.category_map

Next == Construct \/ MigrateSingleArticle

Spec == Init /\ [][Next]_vars

-----------------------------------------------------------------------------
(* The mapper and the transformer called on their own.  Both only read     *)
(* category_map and write nothing, so one call from each initial state     *)
(* covers every call: the call actions are enabled while no call is        *)
(* recorded.                                                               *)

InitPure ==
    /\ category_map \in CategoryTables
    /\ migration_log = <<>>
    /\ access_token = None
    /\ store = InitialStore
    /\ requests = <<>>
    /\ last = NoCall
    /\ returned = <<>>

CallMapCategoryId ==
    \E source_category_id \in SourceCategoryIds \cup {None} :
        LET r == map_category_id(source_category_id) IN
        /\ last = NoCall
        /\ last' = [op   |-> "map_category_id",
                    args |-> [source_category_id |-> source_category_id],
                    ret  |-> r.ret,
                    out  |-> r.out]
        /\ category_map' = r.category_map
        /\ UNCHANGED <<migration_log, access_token, store, requests, returned>>

CallTransformArticle ==
    \E source_article \in SourceArticles,
       destination_department_id \in DestinationDepartmentIds :
        LET r == transform_article(source_article, destination_department_id) IN
        /\ last = NoCall
        /\ last' = [op   |-> "transform_article",
                    args |-> [source_article |-> source_article,
                              destination_department_id |-> destination_department_id],
                    ret  |-> r.ret,
                    out  |-> r.out]
        /\ category_map' = r.category_map
        /\ UNCHANGED <<migration_log, access_token, store, requests, returned>>

NextPure == CallMapCategoryId \/ CallTransformArticle

SpecPure == InitPure /\ [][NextPure]_vars


-----------------------------------------------------------------------------
(* Properties of the category mapper (map_category_id)                     *)

\* a table value that is an unresolved marker of the table literal
IsPlaceholder(v) == StartsWith(v.str, "PLACEHOLDER_")

\* a table value that is a destination id
IsRealId(v) == v # Str("") /\ ~IsPlaceholder(v)

MapperCalled == last.op = "map_category_id"

MapperArg == last.args.source_category_id

\* the outcome "no mapping": nothing returned, the no-mapping warning printed
UnmappedCategory(id, ret, out) ==
    /\ ret = None
    /\ out = << "[Migrator] WARNING: No mapping found for category ID " \o Fmt(id) >>

\* the outcome "placeholder": nothing returned, the placeholder error printed
PlaceholderMapping(value, ret, out) ==
    /\ ret = None
    /\ Len(out) = 2
    /\ out[1] = "[Migrator] ERROR: Category mapping is a placeholder: " \o value.str

\* C1: a source category id that is a key of the table with a real
\* (non-placeholder) destination id is mapped to exactly that table value.
C1_ResolveReturnsTableValue ==
    (/\ MapperCalled
     /\ MapperArg \in DOMAIN category_map
     /\ IsRealId(category_map[MapperArg]))
    => last.ret = category_map[MapperArg]

C1_Witness ==
    /\ MapperCalled
    /\ MapperArg \in DOMAIN category_map
    /\ IsRealId(category_map[MapperArg])
    /\ category_map[MapperArg] # MapperArg
    /\ last.ret = category_map[MapperArg]

\* C2: a source category id that is not a key of the table gets the
\* UnmappedCategory outcome.
C2_AbsentIsUnmapped ==
    (MapperCalled /\ MapperArg \notin DOMAIN category_map)
    => UnmappedCategory(MapperArg, last.ret, last.out)

C2_Witness ==
    /\ MapperCalled
    /\ MapperArg # None
    /\ category_map # <<>>
    /\ MapperArg \notin DOMAIN category_map
    /\ UnmappedCategory(MapperArg, last.ret, last.out)

\* C3 (as claimed): a source category id whose table entry is a placeholder
\* gets the PlaceholderMapping outcome, and what the caller receives differs
\* from what it receives for an id absent from the table.
C3_PlaceholderDistinctFromUnmapped ==
    (/\ MapperCalled
     /\ MapperArg \in DOMAIN category_map
     /\ IsPlaceholder(category_map[MapperArg]))
    => /\ PlaceholderMapping(category_map[MapperArg], last.ret, last.out)
       /\ \A absent \in SourceCategoryIds \ DOMAIN category_map :
            last.ret # map_category_id(absent).ret

-----------------------------------------------------------------------------
(* Properties of the transformer (transform_article)                       *)

TransformCalled == last.op = "transform_article"

TransformReturned == TransformCalled /\ last.ret # None

SourceArticle == last.args.source_article

PayloadKeys == {"title", "answer", "categoryId", "departmentId",
                "status", "tags", "summary"}

\* C4: a payload returned by transform_article never has a categoryId that
\* is a placeholder, empty or None.
C4_PayloadCategoryResolved ==
    TransformReturned
    => /\ "categoryId" \in DOMAIN last.ret
       /\ last.ret.categoryId # None
       /\ last.ret.categoryId # Str("")
       /\ ~IsPlaceholder(last.ret.categoryId)

\* transform_article refused an article whose category maps to a placeholder ...
C4_Witness ==
    /\ TransformCalled
    /\ Get(SourceArticle, "categoryId") \in DOMAIN category_map
    /\ IsPlaceholder(category_map[SourceArticle.categoryId])
    /\ last.ret = None

C6_DepartmentIsArgument ==
    TransformReturned
    => last.ret.departmentId = last.args.destination_department_id

C6_Witness ==
    /\ TransformReturned
    /\ "departmentId" \in DOMAIN SourceArticle
    /\ SourceArticle.departmentId # last.args.destination_department_id
    /\ last.ret.departmentId = last.args.destination_department_id

\* C7: title and answer of the payload are the source's, and the payload has
\* no key outside title, answer, categoryId, departmentId, status, tags,
\* summary.
C7_TitleAnswerVerbatimNoOtherKeys ==
    TransformReturned
    => /\ last.ret.title = SourceArticle.title
       /\ last.ret.answer = SourceArticle.answer
       /\ DOMAIN last.ret \subseteq PayloadKeys

C7_Witness ==
    /\ TransformReturned
    /\ "id" \in DOMAIN SourceArticle
    /\ "id" \notin DOMAIN last.ret
    /\ DOMAIN last.ret = PayloadKeys
    /\ last.ret.answer = Str("<p>Join <b>ACE-WiFi</b> &amp; browse</p>")


-----------------------------------------------------------------------------
(* Properties of the orchestrator (migrate_single_article)                 *)

MigrateCalled == last.op = "migrate_single_article"

Status(result) == result.status.str

\* the requests of the last call that create an article
CreateRequests ==
    { i \in DOMAIN requests :
        requests[i].method = "POST" /\ requests[i].url = base_url \o "/articles" }

\* the requests of the last call that fetch an article
FetchRequests ==
    { i \in DOMAIN requests :
        requests[i].method = "GET"
        /\ StartsWith(requests[i].url, base_url \o "/articles/") }

\* the last call fetched its source article
FetchSucceeded ==
    /\ MigrateCalled
    /\ \E i \in FetchRequests : requests[i].ok

\* C8: every attempt appends exactly one result to the migration log: the
\* log is the sequence of the results returned by the attempts made on the
\* orchestrator since its construction, the latest one last.
C8_LogIsReturnedResults ==
    /\ migration_log = returned
    /\ MigrateCalled =>
         /\ migration_log # <<>>
         /\ migration_log[Len(migration_log)] = last.ret

\* two attempts, a failed fetch and then a created article, both in the log
C8_Witness ==
    /\ Len(migration_log) = 2
    /\ migration_log = returned
    /\ Status(migration_log[1]) = "failed"
    /\ migration_log[1].error = Str("Failed to fetch source article")
    /\ Status(migration_log[2]) = "success"

\* C9: the migration log is append-only: a step that is not the
\* construction of a new orchestrator keeps every entry at its position,
\* and the log is empty only when no attempt was made since construction.
C9_LogAppendOnly ==
    /\ [][ \/ last'.op = "__init__"
           \/ /\ Len(migration_log') >= Len(migration_log)
              /\ SubSeq(migration_log', 1, Len(migration_log)) = migration_log ]_vars
    /\ [](migration_log = <<>> <=> ~MigrateCalled)

\* a dry run is still first in the log after a failed category mapping
\* was appended behind it
C9_Witness ==
    /\ Len(migration_log) = 2
    /\ Status(migration_log[1]) = "dry_run"
    /\ Status(migration_log[2]) = "failed"
    /\ migration_log[2].error = Str("Category mapping failed")
    /\ last.ret = migration_log[2]

\* C10: a dry run whose fetch and transform succeed ends with status
\* dry_run, carries the fetched article and the transformed payload, and
\* sends no create request.
C10_DryRunDoesNotCreate ==
    (/\ FetchSucceeded
     /\ last.args.dry_run
     /\ transform_article(store[last.args.article_id],
                          last.args.destination_department_id).ret # None)
    => /\ Status(last.ret) = "dry_run"
       /\ last.ret.source = store[last.args.article_id]
       /\ last.ret.transformed =
            transform_article(store[last.args.article_id],
                              last.args.destination_department_id).ret
       /\ CreateRequests = {}

\* a dry run of the Wi-Fi article: one fetch, the payload recorded, no create
C10_Witness ==
    /\ MigrateCalled
    /\ last.args.dry_run
    /\ Status(last.ret) = "dry_run"
    /\ last.ret.transformed.categoryId = Str("986740000000700125")
    /\ last.ret.source = store[last.args.article_id]
    /\ CreateRequests = {}
    /\ Cardinality(FetchRequests) = 1

\* the entries of the migration log that are dry runs
DryRuns == { i \in DOMAIN migration_log : Status(migration_log[i]) = "dry_run" }

\* C11: a dry run is idempotent: two dry runs in the log for the same
\* article id whose fetched source is the same carry the same transformed
\* payload, and a step that is a dry run sends no create request and
\* leaves the remote store as it was.
C11_DryRunIdempotent ==
    /\ [](\A i, j \in DryRuns :
            (/\ migration_log[i].article_id = migration_log[j].article_id
             /\ migration_log[i].source = migration_log[j].source)
            => migration_log[i].transformed = migration_log[j].transformed)
    /\ [][ (last'.op = "migrate_single_article" /\ last'.args.dry_run)
           => (store' = store /\ CreateRequests' = {}) ]_vars

\* the Wi-Fi article dry-run twice in a row, both payloads recorded
C11_Witness ==
    /\ Len(migration_log) = 2
    /\ DryRuns = {1, 2}
    /\ migration_log[1].article_id = Str("986740000000710001")
    /\ migration_log[2].article_id = Str("986740000000710001")
    /\ migration_log[1].source = migration_log[2].source
    /\ migration_log[1].transformed = migration_log[2].transformed
    /\ last.args.dry_run
    /\ CreateRequests = {}

\* C12: when the source article cannot be fetched (not found, not
\* authorized or no answer) the result is exactly the failed result with
\* the error "Failed to fetch source article", nothing but the opening line
\* was printed (no stage after the fetch ran), and the single fetch is the
\* only request sent to the articles of the help desk.
C12_FetchFailureStops ==
    (MigrateCalled /\ ~FetchSucceeded)
    => /\ last.ret = [article_id |-> last.args.article_id,
                      status     |-> Str("failed"),
                      error      |-> Str("Failed to fetch source article")]
       /\ Len(last.out) = 1
       /\ Cardinality(FetchRequests) = 1
       /\ CreateRequests = {}

\* an article the store does not hold, asked for with a valid token and a
\* live run: the fetch is answered 404 and the attempt stops there
C12_Witness ==
    /\ MigrateCalled
    /\ last.args.article_id = MissingArticleId
    /\ ~last.args.dry_run
    /\ \A i \in FetchRequests :
         /\ requests[i].authorization = Str("Zoho-oauthtoken " \o IssuedToken.str)
         /\ ~requests[i].ok
    /\ Status(last.ret) = "failed"
    /\ last.ret.error = Str("Failed to fetch source article")
    /\ CreateRequests = {}

\* the entry's article was fetched and its category is a key of
\* category_map whose value is a placeholder
PlaceholderFailure(result) ==
    /\ "title" \in DOMAIN result
    /\ result.article_id \in DOMAIN store
    /\ "categoryId" \in DOMAIN store[result.article_id]
    /\ store[result.article_id]["categoryId"] \in DOMAIN category_map
    /\ IsPlaceholder(category_map[store[result.article_id]["categoryId"]])

\* the entry's article was fetched and its category is not a key of
\* category_map
UnmappedFailure(result) ==
    /\ "title" \in DOMAIN result
    /\ result.article_id \in DOMAIN store
    /\ Get(store[result.article_id], "categoryId") \notin DOMAIN category_map

\* what a result says apart from which article it is about
ResultKind(result) ==
    [k \in DOMAIN result \ {"article_id", "title"} |-> result[k]]

\* C13: when the category of the fetched article cannot be resolved the
\* attempt fails and no create request is sent, and the recorded result
\* tells the kind of the mapper's failure: the result of an article whose
\* category is mapped to a placeholder differs, apart from article id and
\* title, from the result of an article whose category is not in the table.
C13_CategoryFailureCarriesKind ==
    /\ (/\ FetchSucceeded
        /\ (PlaceholderFailure(last.ret) \/ UnmappedFailure(last.ret)))
       => (Status(last.ret) = "failed" /\ CreateRequests = {})
    /\ \A i, j \in DOMAIN migration_log :
         (PlaceholderFailure(migration_log[i]) /\ UnmappedFailure(migration_log[j]))
         => ResultKind(migration_log[i]) # ResultKind(migration_log[j])

\* the part of C13 the code keeps: an unresolved category fails the
\* attempt before any create request
C13_CategoryFailureStops ==
    (/\ FetchSucceeded
     /\ (PlaceholderFailure(last.ret) \/ UnmappedFailure(last.ret)))
    => /\ Status(last.ret) = "failed"
       /\ last.ret.error = Str("Category mapping failed")
       /\ CreateRequests = {}

\* the payload the last call had to create
LastPayload ==
    transform_article(store[last.args.article_id],
                      last.args.destination_department_id).ret

\* the last call was live and fetched and transformed its article
LiveTransformed ==
    /\ FetchSucceeded
    /\ ~last.args.dry_run
    /\ LastPayload # None

\* C14: a live attempt whose fetch and transform succeed sends one create
\* request whose body is the transformed payload.  If it is answered the
\* result is a success whose new_article_id and new_permalink are the id
\* and permalink of the article the store created from that payload; if
\* not, the result is failed with "API creation failed" and no new id.
C14_CreateOutcome ==
    LiveTransformed
    => /\ Cardinality(CreateRequests) = 1
       /\ \A i \in CreateRequests :
            /\ requests[i].json = LastPayload
            /\ IF requests[i].ok
               THEN /\ Status(last.ret) = "success"
                    /\ last.ret.new_article_id =
                         NewArticleId(Cardinality(Created(store)))
                    /\ last.ret.new_article_id \in Created(store)
                    /\ store[last.ret.new_article_id]["id"] = last.ret.new_article_id
                    /\ store[last.ret.new_article_id]["permalink"] = last.ret.new_permalink
                    /\ \A k \in DOMAIN LastPayload :
                         store[last.ret.new_article_id][k] = LastPayload[k]
               ELSE /\ Status(last.ret) = "failed"
                    /\ last.ret.error = Str("API creation failed")
                    /\ "new_article_id" \notin DOMAIN last.ret
                    /\ "new_permalink" \notin DOMAIN last.ret

\* the Wi-Fi article created as the second article of the destination
C14_Witness ==
    /\ LiveTransformed
    /\ Status(last.ret) = "success"
    /\ Cardinality(Created(store)) = 2
    /\ last.ret.new_article_id = NewArticleId(2)
    /\ store[last.ret.new_article_id]["title"] = Str("Wi-Fi Help")
    /\ \E i \in CreateRequests : requests[i].ok

\* a live attempt whose create request got no answer
C14_WitnessFailed ==
    /\ LiveTransformed
    /\ \E i \in CreateRequests : ~requests[i].ok
    /\ last.ret.error = Str("API creation failed")

WellFormedResult(result) ==
    /\ Status(result) \in {"success", "failed", "dry_run"}
    /\ ("error" \in DOMAIN result) <=> (Status(result) = "failed")
    /\ ("error" \in DOMAIN result) => Truthy(result.error)
    /\ ("new_article_id" \in DOMAIN result) => (Status(result) = "success")

\* C15: every completed attempt has exactly one result, and the status of
\* every result is one of success, failed and dry_run; a result has an
\* error string exactly when it is failed, and a new article id only when
\* it is a success.
C15_ResultWellFormed ==
    /\ \A i \in DOMAIN migration_log : WellFormedResult(migration_log[i])
    /\ MigrateCalled => WellFormedResult(last.ret)
    /\ Len(returned) = Len(migration_log)

\* a log that holds a success after a failed creation
C15_Witness ==
    /\ Len(migration_log) = 2
    /\ Status(migration_log[1]) = "failed"
    /\ migration_log[1].error = Str("API creation failed")
    /\ Status(migration_log[2]) = "success"
    /\ "error" \notin DOMAIN migration_log[2]
    /\ "new_article_id" \in DOMAIN migration_log[2]

\* C16: no retry: one call of migrate_single_article sends exactly one
\* fetch request and at most one create request, also when the fetch or
\* the create fails.
C16_NoRetry ==
    MigrateCalled
    => /\ Cardinality(FetchRequests) = 1
       /\ Cardinality(CreateRequests) <= 1

\* a fetch that got no answer although the token was valid: it was sent
\* once and the attempt failed
C16_Witness ==
    /\ MigrateCalled
    /\ last.args.article_id \in DOMAIN store
    /\ Cardinality(FetchRequests) = 1
    /\ \A i \in FetchRequests :
         /\ requests[i].authorization = Str("Zoho-oauthtoken " \o IssuedToken.str)
         /\ ~requests[i].ok
    /\ Status(last.ret) = "failed"

\* a create that got no answer: it was sent once
C16_WitnessCreate ==
    /\ MigrateCalled
    /\ Cardinality(CreateRequests) = 1
    /\ \A i \in CreateRequests : ~requests[i].ok
    /\ Status(last.ret) = "failed"

-----------------------------------------------------------------------------
(* The listing methods of the API client called on their own.  A call     *)
(* reads and writes only self.auth.access_token, so one call from each    *)
(* initial state covers every call.                                       *)

\* the client before the call: the token is not yet fetched, or it was
\* (test_migrate_one.py fetches it before the first API call)
InitPager ==
    /\ category_map = DefaultCategoryMap
    /\ migration_log = <<>>
    /\ access_token \in {None, IssuedToken}
    /\ store = InitialStore
    /\ requests = <<>>
    /\ last = NoCall
    /\ returned = <<>>

\* the limit and from_index arguments get_articles is called with
Limits == {None, IntValue(0), IntValue(1), IntValue(5), IntValue(20),
           IntValue(batch_size), IntValue(2 * batch_size)}

FromIndexes == {None, IntValue(1), IntValue(batch_size + 1)}

\* the answers a store can give to the requests of one get_all_articles call
PagerPlans ==
    [full  : 0..MaxPageRequests,
     final : PageAnswers \ {[kind |-> "page", size |-> batch_size]}]

CallGetArticles ==
    /\ last = NoCall
    /\ \E limit \in Limits, from_index \in FromIndexes,
          token_reply \in TokenReplies,
          answer \in {a \in PageAnswers :
                        a.kind = "page" => a.size \in {0, 1, 5, 20, batch_size}} :
        LET r == get_articles(access_token, limit, from_index,
                              [token_reply |-> token_reply, answer |-> answer])
        IN  /\ access_token' = r.access_token
            /\ requests' = r.requests
            /\ last' = [op   |-> "get_articles",
                        args |-> [limit |-> limit, from_index |-> from_index],
                        ret  |-> r.ret,
                        out  |-> r.out]
    /\ UNCHANGED <<category_map, migration_log, store, returned>>

CallGetAllArticles ==
    /\ last = NoCall
    /\ \E plan \in PagerPlans, token_reply \in TokenReplies :
        LET r == get_all_articles(access_token, plan, token_reply)
        IN  /\ access_token' = r.access_token
            /\ requests' = r.requests
            /\ last' = IF r.finished
                       THEN [op       |-> "get_all_articles",
                             answers  |-> plan,
                             finished |-> TRUE,
                             ret      |-> List(r.all_articles),
                             out      |-> r.out]
                       ELSE [op       |-> "get_all_articles",
                             answers  |-> plan,
                             finished |-> FALSE,
                             out      |-> r.out]
    /\ UNCHANGED <<category_map, migration_log, store, returned>>

NextPager == CallGetArticles \/ CallGetAllArticles

SpecPager == InitPager /\ [][NextPager]_vars

-----------------------------------------------------------------------------
(* Properties of the pager (get_all_articles)                              *)

PagerCalled == last.op = "get_all_articles"

\* the page requests of the last call, in the order sent
PageRequests ==
    SelectSeq(requests, LAMBDA q : q.method = "GET" /\ q.url = base_url \o "/articles")

\* the first n articles of the remote side's listing
Listing(n) == [i \in 1..n |-> ListedArticle(i)]

\* the store answered the last call with full pages and then a short,
\* non-empty one, and the client had or got a token
FullThenShort ==
    /\ PagerCalled
    /\ access_token = IssuedToken
    /\ last.answers.full < MaxPageRequests
    /\ last.answers.final.kind = "page"
    /\ last.answers.final.size \in 1..(batch_size - 1)

\* C17: against a store that answers k full pages of 100 and then a short
\* page of s articles (0 < s < 100), get_all_articles returns the
\* 100 * k + s articles in order after exactly k + 1 page requests, at the
\* offsets 1, 101, 201, ..., each with limit 100; for the pages
\* [100, 100, 37] that is 237 articles after 3 requests and no request
\* after the short page.
C17_PagerCollectsPages ==
    FullThenShort
    => /\ last.finished
       /\ last.ret = List(Listing(batch_size * last.answers.full
                                  + last.answers.final.size))
       /\ Len(PageRequests) = last.answers.full + 1
       /\ \A i \in DOMAIN PageRequests :
            /\ PageRequests[i].params["from"] = IntValue(1 + batch_size * (i - 1))
            /\ PageRequests[i].params["limit"] = IntValue(batch_size)
            /\ PageRequests[i].ok

\* the pages [100, 100, 37]: 237 articles after requests at 1, 101 and 201
C17_Witness ==
    /\ FullThenShort
    /\ last.answers.full = 2
    /\ last.answers.final.size = 37
    /\ last.finished
    /\ Len(last.ret.list) = 237
    /\ Len(PageRequests) = 3
    /\ PageRequests[1].params["from"] = IntValue(1)
    /\ PageRequests[2].params["from"] = IntValue(101)
    /\ PageRequests[3].params["from"] = IntValue(201)

\* C18: get_all_articles terminates for every behaviour of the store: a
\* call has returned by the time it has sent MaxPageRequests page
\* requests, also against a store that answers every request with a full
\* page.
C18_PagerTerminates ==
    PagerCalled => last.finished

\* some page request of the last call failed
PageRequestFailed == \E i \in DOMAIN PageRequests : ~PageRequests[i].ok

\* C19: when a page request fails get_all_articles stops without sending
\* the request again, and what it returns tells the failure: it is not a
\* bare list of articles, which is what a complete aggregation returns.
C19_PagerReportsFailure ==
    (PagerCalled /\ PageRequestFailed)
    => /\ last.finished
       /\ \A i \in DOMAIN PageRequests : ~PageRequests[i].ok => i = Len(PageRequests)
       /\ "list" \notin DOMAIN last.ret

\* the part of C19 the code keeps: the failed request is the last one
\* sent, and the articles of the pages before it are returned
C19_PagerStopsOnFailure ==
    (PagerCalled /\ PageRequestFailed)
    => /\ last.finished
       /\ \A i \in DOMAIN PageRequests : ~PageRequests[i].ok => i = Len(PageRequests)
       /\ last.ret = List(Listing(batch_size * (Len(PageRequests) - 1)))

-----------------------------------------------------------------------------
(* Properties of the client's authentication (_get_headers)                *)

\* the requests of the last call that went to the help desk, not to the
\* token endpoint
StoreRequests == { i \in DOMAIN requests : StartsWith(requests[i].url, base_url) }

\* C20: a failure to get an access token is fatal: when the credential
\* provider has yielded no token, the call sends no request to the help
\* desk.
C20_NoRequestWithoutToken ==
    (MigrateCalled /\ access_token = None) => StoreRequests = {}

\* what the code does instead: the request is sent once, with the header
\* built from the missing token, and is refused
C20_RequestSentWithoutToken ==
    (MigrateCalled /\ access_token = None)
    => /\ Cardinality(StoreRequests) = 1
       /\ \A i \in StoreRequests :
            /\ requests[i].authorization = Str("Zoho-oauthtoken None")
            /\ ~requests[i].ok

-----------------------------------------------------------------------------
(* Properties of repeated and combined calls                               *)

\* the created articles of a store that hold the payload of the source
\* article id
CreatedFromIn(articles, article_id) ==
    { k \in Created(articles) :
        LET payload == transform_article(articles[article_id], ACE_DEPARTMENT_ID).ret
        IN  /\ payload # None
            /\ \A f \in DOMAIN payload : articles[k][f] = payload[f] }

CreatedFrom(article_id) == CreatedFromIn(store, article_id)

C21_WitnessOneOrchestrator ==
    /\ Len(migration_log) = 2
    /\ \A i \in {1, 2} :
         /\ migration_log[i].article_id = Str("986740000000710001")
         /\ Status(migration_log[i]) = "success"
    /\ migration_log[1].new_article_id # migration_log[2].new_article_id
    /\ CreatedFrom(Str("986740000000710001"))
         = {migration_log[1].new_article_id, migration_log[2].new_article_id}

\* C22: the category table is read-only after construction: a step that
\* is a call of migrate_single_article (with the transform_article and
\* map_category_id calls it makes), successful or failed, leaves every key
\* and value of category_map as it was.
C22_CategoryMapReadOnly ==
    [][ last'.op # "__init__" => category_map' = category_map ]_vars

\* after a created article and a failed category mapping the table is
\* still the literal of the constructor
C22_Witness ==
    /\ Len(migration_log) = 2
    /\ Status(migration_log[1]) = "success"
    /\ Status(migration_log[2]) = "failed"
    /\ migration_log[2].error = Str("Category mapping failed")
    /\ category_map = DefaultCategoryMap

-----------------------------------------------------------------------------
(* The pager's offsets and stop rule                                       *)

\* the number of articles the i-th page request of the last call brought
Received(i) ==
    IF PageRequests[i].ok /\ AnswerAt(last.answers, i).kind = "page"
    THEN AnswerAt(last.answers, i).size
    ELSE 0

\* the number of articles the page requests before the i-th brought
RECURSIVE ReceivedBefore(_)
ReceivedBefore(i) ==
    IF i <= 1 THEN 0 ELSE ReceivedBefore(i - 1) + Received(i - 1)

\* C23: in get_all_articles the first page request has offset 1 and page
\* size 100, every later request has offset 1 plus the number of articles
\* received so far, a request is followed by another exactly when it
\* brought a full page, and the call returns, with the articles received,
\* at the first page that is empty or shorter than the page size.
C23_PagerOffsetsAndStop ==
    PagerCalled
    => /\ Len(PageRequests) >= 1
       /\ \A i \in DOMAIN PageRequests :
            /\ PageRequests[i].params["limit"] = IntValue(batch_size)
            /\ PageRequests[i].params["from"] = IntValue(1 + ReceivedBefore(i))
            /\ i < Len(PageRequests) => Received(i) = batch_size
       /\ last.finished <=> Received(Len(PageRequests)) < batch_size
       /\ ~last.finished => Len(PageRequests) = MaxPageRequests
       /\ last.finished
            => last.ret = List(Listing(ReceivedBefore(Len(PageRequests) + 1)))

\* a full page and then an empty one: requests at offsets 1 and 101, the
\* 100 articles returned
C23_Witness ==
    /\ PagerCalled
    /\ last.answers.full = 1
    /\ last.answers.final = [kind |-> "page", size |-> 0]
    /\ last.finished
    /\ Len(PageRequests) = 2
    /\ PageRequests[2].ok
    /\ PageRequests[2].params["from"] = IntValue(101)
    /\ Len(last.ret.list) = 100

-----------------------------------------------------------------------------
(* The stages of one attempt                                               *)

\* C24: the stages of an attempt run in the order fetch, transform, then
\* dry-run completion or create: a create request is sent if and only if
\* the fetch succeeded, the transform gave a payload and dry_run is false;
\* it is sent after the successful fetch request of the same call; and the
\* attempt ends as a dry run if and only if the fetch succeeded, the
\* transform gave a payload and dry_run is true.
C24_StageOrder ==
    MigrateCalled
    => /\ (CreateRequests # {}) <=> LiveTransformed
       /\ \A c \in CreateRequests :
            \E f \in FetchRequests : f < c /\ requests[f].ok
       /\ (Status(last.ret) = "dry_run")
            <=> (FetchSucceeded /\ last.args.dry_run /\ LastPayload # None)
       /\ (Status(last.ret) = "success") => LiveTransformed

\* the first call of a client: the token request, then the fetch, then
\* the create
C24_Witness ==
    /\ MigrateCalled
    /\ Len(requests) = 3
    /\ requests[1].url = token_url
    /\ FetchRequests = {2}
    /\ CreateRequests = {3}
    /\ requests[2].ok
    /\ Status(last.ret) = "success"

-----------------------------------------------------------------------------
(* The cached access token                                                 *)

\* the requests of the last call that went to the token endpoint
TokenRequests == { i \in DOMAIN requests : requests[i].url = token_url }

-----------------------------------------------------------------------------
(* Unresolved markers and missing categories                               *)

\* the value create_mapping_code writes for a category it cannot match
NEEDS_MAPPING == "NEEDS_MAPPING"

\* a table value that the repository's tooling writes as unresolved
IsUnresolvedMarker(v) == IsPlaceholder(v) \/ v = Str(NEEDS_MAPPING)

\* C26: every unresolved marker of the repository's tooling, the
\* PLACEHOLDER_ values and NEEDS_MAPPING, is treated as unresolved:
\* map_category_id returns None for a category mapped to one, and a payload
\* returned by transform_article never has one as its categoryId.
C26_MarkersNeverEmitted ==
    /\ (/\ MapperCalled
        /\ MapperArg \in DOMAIN category_map
        /\ IsUnresolvedMarker(category_map[MapperArg]))
       => last.ret = None
    /\ TransformReturned => ~IsUnresolvedMarker(last.ret.categoryId)

\* the source article of an attempt has no category: the key is absent or
\* its value is None
NoCategory(article) == Get(article, "categoryId") = None

\* C27: a fetched source article without a categoryId is handled as a
\* category-resolution failure: transform_article gives no payload, the
\* attempt records one failed result with "Category mapping failed", and
\* no create request is sent.
C27_MissingCategoryFails ==
    (FetchSucceeded /\ NoCategory(store[last.args.article_id]))
    => /\ LastPayload = None
       /\ last.ret = [article_id |-> last.args.article_id,
                      title      |-> Get(store[last.args.article_id], "title"),
                      status     |-> Str("failed"),
                      error      |-> Str("Category mapping failed")]
       /\ migration_log[Len(migration_log)] = last.ret
       /\ Len(migration_log) = Len(returned)
       /\ CreateRequests = {}

\* a dry run of the article whose categoryId is None
C27_WitnessNull ==
    /\ FetchSucceeded
    /\ last.args.dry_run
    /\ "categoryId" \in DOMAIN store[last.args.article_id]
    /\ store[last.args.article_id]["categoryId"] = None
    /\ Status(last.ret) = "failed"
    /\ last.ret.title = Str("Unfiled")
    /\ CreateRequests = {}

\* a live attempt on the article that has no categoryId key
C27_Witness ==
    /\ FetchSucceeded
    /\ ~last.args.dry_run
    /\ "categoryId" \notin DOMAIN store[last.args.article_id]
    /\ Status(last.ret) = "failed"
    /\ last.ret.title = Str("Uncategorised")
    /\ CreateRequests = {}

=============================================================================
